---- MODULE Spec2Model ----
(***************************************************************************)
(* A model of the remote generation job orchestrator of                    *)
(* middleware/suno_client.py: _slugify, _create_suno_task,                 *)
(* _poll_suno_task, _download_audio and generate_music_from_prompt_en.     *)
(*                                                                         *)
(* Conventions.                                                            *)
(*  - A Python str is a TLA+ string, except titles, slugs and file names,  *)
(*    which are sequences of one-character strings so that strip, re.sub   *)
(*    and rsplit can be computed on them.                                  *)
(*  - A JSON object (a Python dict) is a record; a key that is absent from *)
(*    the dict is absent from the record's DOMAIN.  JSON numbers are the   *)
(*    text of their literal ("200", "30").  Python's None is None.         *)
(*  - The wall clock time.time() is counted in ticks, TicksPerSec ticks to *)
(*    the second, so that int(time.time() - start) truncates.              *)
(*  - An exception is a record: cls is the Python class that is raised,    *)
(*    kind names the raise statement by the error taxonomy, and the other  *)
(*    fields are the values interpolated into its message.                 *)
(***************************************************************************)
EXTENDS Integers, Sequences, FiniteSets, TLC

\* ------------------------------------------------------------------ bounds

\* clock ticks per second (resolution of time.time() in the model)
TicksPerSec == 2

\* the longest round trip of one status query, in ticks
MaxRtt == 1

\* the longest round trip of one status query of a request of the agent, in
\* ticks: its poll sleeps 15 s between the queries and lasts up to 25 of
\* them, and each is answered within the tick
AgentMaxRtt == 0

\* max_wait ranges over 0..MaxWait seconds
MaxWait == 2

\* interval ranges over 0..MaxInterval seconds
MaxInterval == 2

\* the cap on the counters attempt and gets, which have no bound of their own
\* in a loop whose clock stands still (interval = 0 and answers that arrive
\* within the tick): such an iteration is taken while attempt < MaxAttempts
MaxAttempts == 4

\* titles given to _slugify have at most MaxTitleLen characters
MaxTitleLen == 3

\* ------------------------------------------------------------ Python values

None == "None"

\* dict.get(key): the value, or None when the key is absent
Get(d, k) == IF k \in DOMAIN d THEN d[k] ELSE None

\* truth value of an optional string: None and "" are falsy
Truthy(v) == v # None /\ v # ""

\* the characters of the model's titles
Alphabet == {"a", "7", "_", "-", " ", "!", "."}

\* str.strip() removes these
Whitespace == {" "}

\* the class [\w\-] of the pattern in _slugify
WordOrHyphen == {"a", "7", "_", "-", "H", "k", "i", "m", "M", "e", "T", "r", "c"}

RECURSIVE LStrip(_, _)
LStrip(s, chars) ==
    IF s # <<>> /\ Head(s) \in chars THEN LStrip(Tail(s), chars) ELSE s

RECURSIVE RStrip(_, _)
RStrip(s, chars) ==
    IF s # <<>> /\ s[Len(s)] \in chars
    THEN RStrip(SubSeq(s, 1, Len(s) - 1), chars)
    ELSE s

\* str.strip(chars)
Strip(s, chars) == RStrip(LStrip(s, chars), chars)

\* re.sub(r"[^\w\-]+", "_", s): every maximal run of characters outside the
\* class becomes one underscore; inRun says the previous character was outside
RECURSIVE ReSub(_, _)
ReSub(s, inRun) ==
    IF s = <<>> THEN <<>>
    ELSE IF Head(s) \in WordOrHyphen
         THEN <<Head(s)>> \o ReSub(Tail(s), FALSE)
         ELSE (IF inRun THEN <<>> ELSE <<"_">>) \o ReSub(Tail(s), TRUE)

\* "hakimi_track"
HakimiTrack == <<"h", "a", "k", "i", "m", "i", "_", "t", "r", "a", "c", "k">>

\* _slugify without the final "or" fallback (a mutant of slugify)
slugify_no_fallback(text) ==
    LET t == Strip(text, Whitespace) IN
    IF t = <<>> THEN HakimiTrack
    ELSE Strip(ReSub(t, FALSE), {"_"})

\* _slugify
slugify(text) ==
    LET t == Strip(text, Whitespace) IN
    IF t = <<>> THEN HakimiTrack
    ELSE LET slug == Strip(ReSub(t, FALSE), {"_"}) IN
         IF slug = <<>> THEN HakimiTrack ELSE slug

\* the index of the last "." of s, 0 when there is none
RECURSIVE LastDot(_, _)
LastDot(s, i) ==
    IF i = 0 THEN 0 ELSE IF s[i] = "." THEN i ELSE LastDot(s, i - 1)

\* filename.rsplit(".", 1)[0]
RSplitDotHead(s) ==
    LET i == LastDot(s, Len(s)) IN
    IF i = 0 THEN s ELSE SubSeq(s, 1, i - 1)

DotMp3 == <<".", "m", "p", "3">>
CoverSuffix == <<"_", "c", "o", "v", "e", "r", ".", "j", "p", "g">>

\* f"{safe_title}.mp3"
AudioFilename(safe_title) == safe_title \o DotMp3

\* filename.rsplit(".", 1)[0] + "_cover.jpg"
CoverFilename(filename) == RSplitDotHead(filename) \o CoverSuffix

\* raise_for_status() left out: no status raises (a mutant)
RaisesForStatus_never(status) == FALSE

\* Response.raise_for_status(): raises HTTPError for 4xx and 5xx
RaisesForStatus(status) == status >= 400 /\ status < 600

\* ------------------------------------------------------------ HTTP exchanges

\* placeholder for the body of a response that carries no JSON object
NoBody == [nobody |-> None]

\* no response received yet (the local resp is unassigned)
NoResp == [net |-> "none", status |-> 0, shape |-> "none", body |-> NoBody, text |-> ""]

\* requests raised a RequestException (connection error, timeout, ...)
ConnError == [net |-> "error", status |-> 0, shape |-> "none", body |-> NoBody, text |-> ""]

\* a received response: its status code, whether resp.json() yields an object
\* ("object"), a JSON array ("array") or raises ("nonjson"), the parsed object
\* and resp.text
Http(status, shape, body, text) ==
    [net |-> "ok", status |-> status, shape |-> shape, body |-> body, text |-> text]

\* bodies of the create endpoint: every combination of message and task_id,
\* each present or absent (the empty object is left out: it behaves as an
\* object without message)
CreateMessages == {"success", "Success", "fail"}
CreateTaskIds == {"abc123", None}
CreateBodies ==
    {[message |-> m, task_id |-> t] : m \in CreateMessages, t \in CreateTaskIds}
    \cup {[message |-> m] : m \in CreateMessages}
    \cup {[task_id |-> t] : t \in CreateTaskIds}

CreateResponses ==
    {ConnError}
    \cup {Http(s, "object", b, "json") : s \in {200, 201, 304, 404, 500}, b \in CreateBodies}
    \cup {Http(s, "nonjson", NoBody, "<html>") : s \in {200, 500}}
    \cup {Http(200, "array", NoBody, "[]")}

\* Clips, as the status endpoint may report them
ClipB ==
    [state |-> "succeeded", audio_url |-> "http://x/a.mp3", title |-> "T",
     duration |-> "30", clip_id |-> "c1"]
ClipFull ==
    [state |-> "succeeded", audio_url |-> "http://x/a.mp3", image_url |-> "http://x/a.jpg",
     title |-> "T", tags |-> "meme", duration |-> "30", clip_id |-> "c1"]
ClipBare == [state |-> "succeeded", audio_url |-> "http://x/a.mp3", image_url |-> ""]
ClipNoAudio == [state |-> "succeeded", image_url |-> "http://x/a.jpg", title |-> "T"]
ClipEmptyAudio == [state |-> "succeeded", audio_url |-> "", clip_id |-> "c1"]
ClipFailed ==
    [state |-> "failed", audio_url |-> "http://x/a.mp3", image_url |-> "http://x/a.jpg",
     clip_id |-> "c1"]
ClipRunning == [state |-> "running", audio_url |-> "http://x/a.mp3", clip_id |-> "c1"]
ClipNoState == [audio_url |-> "http://x/a.mp3", clip_id |-> "c1"]

SucceededClips == {ClipB, ClipFull, ClipBare, ClipNoAudio, ClipEmptyAudio}
Clips == SucceededClips \cup {ClipFailed, ClipRunning, ClipNoState}

\* bodies of the status endpoint
StatusBodies ==
    {[code |-> "200", data |-> <<c>>] : c \in Clips}
    \cup {[code |-> "200", data |-> <<ClipRunning, ClipB>>],
          [code |-> "200", data |-> <<ClipB, ClipFailed>>],
          [code |-> "200", data |-> <<>>],
          [code |-> "200"],
          [code |-> "500", data |-> <<ClipB>>],
          [data |-> <<ClipFailed>>]}

StatusResponses ==
    {ConnError}
    \cup {Http(202, "nonjson", NoBody, "")}
    \cup {Http(s, "nonjson", NoBody, "oops") : s \in {204, 500}}
    \cup {Http(200, "nonjson", NoBody, "<html>")}
    \cup {Http(200, "array", NoBody, "[]")}
    \cup {Http(200, "object", b, "json") : b \in StatusBodies}

\* responses to the download of an artifact
DownloadResponses ==
    {ConnError} \cup {Http(s, "nonjson", NoBody, "bytes") : s \in {200, 304, 404}}

\* open(path, "wb") raises OSError and leaves the directory as it was, or it
\* succeeds and f.write (or the flush at the close of the with block) raises
\* OSError, or both succeed
WriteOutcomes == {"ok", "open_error", "write_error"}

\* what a file may hold after a write that raised: the file was created or
\* truncated by the open; a part of the content that reached it is not told
\* apart from none
TornContents == {""}

\* ------------------------------------------------------------------ inputs

\* titles of the orchestration calls: two with the same slug, one that falls
\* back to the default name
MainTitles == {<<"a">>, <<"a", "!">>, <<"!">>}

\* every title of at most MaxTitleLen characters
Titles == UNION {[1..n -> Alphabet] : n \in 0..MaxTitleLen}

\* (max_wait, interval) in seconds; (30, 15) is the spec's scenario D
WaitConfigs == ((0..MaxWait) \X (0..MaxInterval)) \cup {<<30, 15>>}

\* a path that is None
NoPath == <<>>

NoError == [cls |-> "none", kind |-> "none"]
NoClip == [noclip |-> None]
NoResult == [noresult |-> None]

\* -------------------------------------------------------------------- state

VARIABLES
    apiKey,        \* API_KEY is set (module global)
    title,         \* argument title of generate_music_from_prompt_en
    max_wait,      \* argument max_wait, seconds
    interval,      \* argument interval, seconds
    pc,            \* position of the call
    safe_title,    \* local safe_title of generate_music_from_prompt_en
    filename,      \* local filename of generate_music_from_prompt_en
    task_id,       \* the job handle returned by _create_suno_task
    now,           \* time.time(), in ticks
    start,         \* local start of _poll_suno_task, in ticks
    elapsed,       \* local elapsed of _poll_suno_task, seconds; -1 while unassigned
    attempt,       \* local attempt of _poll_suno_task
    resp,          \* local resp: the last response received by the running function
    clip,          \* the Clip returned by _poll_suno_task
    coverErr,      \* the exception caught by the cover block, "none" if none
    result,        \* the dict returned by generate_music_from_prompt_en
    error,         \* the exception that left generate_music_from_prompt_en
    files,         \* the files of OUTPUT_DIR: a set of <<name, content>>
    posts,         \* history: submission requests sent
    gets,          \* history: status queries sent
    downloads,     \* history: artifact download requests sent
    prevElapsed,   \* history: elapsed of the previous deadline check, -1 if none
    connFailures,  \* history: status queries that ended in a RequestException
    rttTotal,      \* history: ticks spent in status queries
    entry,         \* the entry point that runs: "listener", "once", or "off"
    lpc,           \* position of the entry point / handle_user_request
    user_need,     \* local user_need of handle_user_request
    music_prompt_en, \* local music_prompt_en of handle_user_request
    music_result,  \* local music_result of handle_user_request
    cover_path,    \* local cover_path of handle_user_request
    video,         \* output/video/hakimi_video.mp4: "none" or "written"
    served,        \* history: requests handed to handle_user_request
    generations,   \* history: calls of generate_music_from_prompt_en for the request
    renders,       \* history: calls of audio_to_video for the request
    publishes,     \* history: calls of publish_to_bilibili for the request
    reported,      \* history: the exception printed by Step2 for the request
    last,          \* history: how the last finished request ended: "skipped" (a
                   \* return of handle_user_request for an empty line, an unusable
                   \* prompt or a missing cover), "gen_failed", "published",
                   \* "crashed", "interrupted"; "none" before the first
    calls,         \* concurrent calls: call id -> the frame of that call
    lastWrite      \* history: per file name, the content of its latest write

vars ==
    <<apiKey, title, max_wait, interval, pc, safe_title, filename, task_id,
      now, start, elapsed, attempt, resp, clip, coverErr, result, error,
      files, posts, gets, downloads, prevElapsed, connFailures, rttTotal,
      entry, lpc, user_need, music_prompt_en, music_result, cover_path, video,
      served, generations, renders, publishes, reported, last,
      calls, lastWrite>>

\* the variables of the concurrent calls
conc == <<calls, lastWrite>>

\* the variables of the listener
agent ==
    <<entry, lpc, user_need, music_prompt_en, music_result, cover_path, video,
      served, generations, renders, publishes, reported, last>>

inputs == <<apiKey, title, max_wait, interval>>
names == <<safe_title, filename>>
pollLocals == <<start, elapsed, attempt, prevElapsed, connFailures, rttTotal>>
counters == <<posts, gets, downloads>>

\* the state before generate_music_from_prompt_en is entered
InitWith(ts, cfgs) ==
    /\ apiKey \in BOOLEAN
    /\ title \in ts
    /\ \E c \in cfgs : max_wait = c[1] /\ interval = c[2]
    /\ pc = "call"
    /\ safe_title = <<>>
    /\ filename = <<>>
    /\ task_id = None
    /\ now = 0
    /\ start = 0
    /\ elapsed = -1
    /\ attempt = 0
    /\ resp = NoResp
    /\ clip = NoClip
    /\ coverErr = "none"
    /\ result = NoResult
    /\ error = NoError
    /\ files = {}
    /\ posts = 0
    /\ gets = 0
    /\ downloads = 0
    /\ prevElapsed = -1
    /\ connFailures = 0
    /\ rttTotal = 0

\* no listener runs: generate_music_from_prompt_en is called on its own
AgentOff ==
    /\ entry = "off"
    /\ lpc = "off"
    /\ user_need = <<>>
    /\ music_prompt_en = <<>>
    /\ music_result = NoResult
    /\ cover_path = NoPath
    /\ video = "none"
    /\ served = 0
    /\ generations = 0
    /\ renders = 0
    /\ publishes = 0
    /\ reported = NoError
    /\ last = "none"

\* no concurrent calls are modelled
ConcOff == calls = <<>> /\ lastWrite = {}

Init == InitWith(MainTitles, WaitConfigs) /\ AgentOff /\ ConcOff

\* the facade wrapping what its steps raise in an exception of its own (a
\* mutant)
Raise_wrapped(e) ==
    pc' = "raised" /\ error' = [cls |-> "RuntimeError", kind |-> "Wrapped", cause |-> e]

\* an exception leaves generate_music_from_prompt_en, which catches nothing
Raise(e) == pc' = "raised" /\ error' = e

\* the key test of _ensure_api_key left out (a mutant)
api_key_unchecked == FALSE

\* _ensure_api_key: not API_KEY
api_key_missing == ~apiKey

\* the exception of _ensure_api_key
ensure_api_key_error == [cls |-> "SunoClientError", kind |-> "ConfigurationError"]

\* generate_music_from_prompt_en, up to the call of _create_suno_task
Enter ==
    /\ pc = "call"
    /\ safe_title' = slugify(title)
    /\ filename' = AudioFilename(safe_title')
    /\ pc' = "create"
    /\ UNCHANGED <<conc, agent, inputs, task_id, now, resp, clip, coverErr, result, error,
                   files, counters, pollLocals>>

\* ---------------------------------------------------------- _create_suno_task

\* the validation of the acknowledgment with "and" in place of "or": a body is
\* rejected only when both the marker and the handle are wrong (a mutant)
create_rejects_and(data) ==
    Get(data, "message") # "success" /\ "task_id" \notin DOMAIN data

\* data.get("message") != "success" or "task_id" not in data
create_rejects(data) ==
    Get(data, "message") # "success" \/ "task_id" \notin DOMAIN data

\* what _create_suno_task does with the response r of requests.post: the
\* exception it raises, or the task_id it returns
create_outcome(r) ==
    IF r.net = "error"
    THEN [ok |-> FALSE, error |-> [cls |-> "RequestException", kind |-> "TransportError"]]
    ELSE IF RaisesForStatus(r.status)
    THEN [ok |-> FALSE,
          error |-> [cls |-> "HTTPError", kind |-> "TransportError", status |-> r.status]]
    ELSE IF r.shape = "nonjson"
    THEN [ok |-> FALSE, error |-> [cls |-> "JSONDecodeError", kind |-> "TransportError"]]
    ELSE IF r.shape = "array"
    THEN [ok |-> FALSE, error |-> [cls |-> "AttributeError", kind |-> "TransportError"]]
    ELSE IF create_rejects(r.body)
    THEN [ok |-> FALSE,
          error |-> [cls |-> "SunoClientError", kind |-> "ServiceRejected", data |-> r.body]]
    ELSE [ok |-> TRUE, task_id |-> Get(r.body, "task_id")]

\* _create_suno_task: the key check, one POST, the validation of the answer
CreateTask ==
    /\ pc = "create"
    /\ IF api_key_missing
       THEN /\ Raise(ensure_api_key_error)
            /\ UNCHANGED <<task_id, resp, posts>>
       ELSE \E r \in CreateResponses :
              LET out == create_outcome(r) IN
              /\ posts' = posts + 1
              /\ resp' = r
              /\ IF out.ok
                 THEN /\ task_id' = out.task_id
                      /\ pc' = "poll"
                      /\ UNCHANGED error
                 ELSE /\ Raise(out.error)
                      /\ UNCHANGED task_id
    /\ UNCHANGED <<conc, agent, inputs, names, now, clip, coverErr, result, files, gets,
                   downloads, pollLocals>>

\* ------------------------------------------------------------ _poll_suno_task

\* int(time.time() - start), in seconds
ElapsedAt(t, t0) == (t - t0) \div TicksPerSec

\* data.get("code") == 200 and data.get("data")
HasResult(data) ==
    /\ Get(data, "code") = "200"
    /\ "data" \in DOMAIN data
    /\ Len(data.data) > 0

\* the except clause of the status query re-raising the RequestException
\* instead of sleeping (a mutant)
conn_error_reraised ==
    [next |-> "raise", error |-> [cls |-> "RequestException", kind |-> "TransportError"]]

\* the except clause of the status query: log, sleep, continue
conn_error_outcome == [next |-> "sleep"]

\* the first Clip returned whatever its state (a mutant)
clip_outcome_any_state(c) == [next |-> "return", clip |-> c]

\* a failed first Clip treated as still generating (a mutant)
clip_outcome_failed_pending(c) ==
    IF Get(c, "state") = "succeeded" THEN [next |-> "return", clip |-> c]
    ELSE [next |-> "sleep"]

\* a failed first Clip returned like a succeeded one (a mutant)
clip_outcome_terminal_returned(c) ==
    IF Get(c, "state") \in {"succeeded", "failed"} THEN [next |-> "return", clip |-> c]
    ELSE [next |-> "sleep"]

\* what the iteration does with the first Clip c of a result list
clip_outcome(c) ==
    IF Get(c, "state") = "succeeded" THEN [next |-> "return", clip |-> c]
    ELSE IF Get(c, "state") = "failed"
    THEN [next |-> "raise",
          error |-> [cls |-> "SunoClientError", kind |-> "JobFailed", clip |-> c]]
    ELSE [next |-> "sleep"]

\* the except clause around resp.json(): the failure becomes a SunoClientError
\* whose message quotes the response text
parse_error_outcome(r) ==
    [next |-> "raise",
     error |-> [cls |-> "SunoClientError", kind |-> "ProtocolError", body |-> r.text]]

\* every 2xx status other than 200 taken for "still processing" (a mutant)
still_processing_any_2xx(status) == status > 200 /\ status <= 299

\* resp.status_code == 202: the task is still being processed
still_processing(status) == status = 202

\* what one iteration does with the answer r of its status query:
\*   "sleep"  - time.sleep(interval), then the next iteration
\*   "return" - return clip
\*   "raise"  - raise error
poll_outcome(r) ==
    IF r.net = "error" THEN conn_error_outcome
    ELSE IF still_processing(r.status) THEN [next |-> "sleep"]
    ELSE IF r.status # 200
    THEN [next |-> "raise",
          error |-> [cls |-> "SunoClientError", kind |-> "ServiceError",
                     status |-> r.status, body |-> r.text]]
    ELSE IF r.shape = "nonjson" THEN parse_error_outcome(r)
    ELSE IF r.shape = "array"
    THEN [next |-> "raise",
          error |-> [cls |-> "AttributeError", kind |-> "Unclassified"]]
    ELSE IF HasResult(r.body)
    THEN clip_outcome(r.body.data[1])
    ELSE [next |-> "sleep"]

\* the timeout message without the task_id (a mutant)
poll_timeout_error_no_handle(mw, tid) ==
    [cls |-> "SunoClientError", kind |-> "PollTimeout", max_wait |-> mw]

\* the exception of the deadline check: its message interpolates max_wait and
\* task_id
poll_timeout_error(mw, tid) ==
    [cls |-> "SunoClientError", kind |-> "PollTimeout", max_wait |-> mw, task_id |-> tid]

\* _poll_suno_task up to the loop: the key check, start = time.time(), attempt = 0
PollStart ==
    /\ pc = "poll"
    /\ IF api_key_missing
       THEN /\ Raise(ensure_api_key_error)
            /\ UNCHANGED <<start, attempt, resp>>
       ELSE /\ start' = now
            /\ attempt' = 0
            /\ resp' = NoResp
            /\ pc' = "loop"
            /\ UNCHANGED error
    /\ UNCHANGED <<conc, agent, inputs, names, task_id, now, clip, coverErr, result, files,
                   counters, elapsed, prevElapsed, connFailures, rttTotal>>

\* the deadline test off by one second (a mutant)
deadline_passed_late(e, mw) == e > mw + 1

\* the deadline test of the loop
deadline_passed(e, mw) == e > mw

\* the head of one iteration: elapsed is computed and compared with max_wait;
\* either the timeout is raised or attempt is counted and the query is next
PollCheck ==
    /\ pc = "loop"
    /\ LET e == ElapsedAt(now, start) IN
       /\ elapsed' = e
       /\ prevElapsed' = elapsed
       /\ IF deadline_passed(e, max_wait)
          THEN /\ Raise(poll_timeout_error(max_wait, task_id))
               /\ UNCHANGED attempt
          ELSE /\ attempt' = attempt + 1
               /\ pc' = "query"
               /\ UNCHANGED error
    /\ UNCHANGED <<conc, agent, inputs, names, task_id, now, start, resp, clip, coverErr,
                   result, files, counters, connFailures, rttTotal>>

\* an iteration that leaves the task unsettled and the clock where it was:
\* the answer arrives within the tick and time.sleep(0) follows
clock_stands_still(r, rtt) ==
    poll_outcome(r).next = "sleep" /\ rtt = 0 /\ interval = 0

\* the clock ticks a status query may take: up to MaxRtt in a call of its
\* own, up to AgentMaxRtt in a request of the agent
query_ticks == IF lpc = "generate" THEN 0..AgentMaxRtt ELSE 0..MaxRtt

\* the status query of one iteration, which takes rtt ticks, and what the
\* iteration does with its answer
PollQuery ==
    /\ pc = "query"
    /\ \E r \in StatusResponses, rtt \in query_ticks :
         LET out == poll_outcome(r) IN
         /\ clock_stands_still(r, rtt) => attempt < MaxAttempts
         /\ now' = now + rtt
         /\ rttTotal' = rttTotal + rtt
         /\ gets' = gets + 1
         /\ resp' = r
         /\ connFailures' = IF r.net = "error" THEN connFailures + 1 ELSE connFailures
         /\ CASE out.next = "sleep" ->
                   pc' = "sleep" /\ UNCHANGED <<clip, error>>
              [] out.next = "return" ->
                   pc' = "download" /\ clip' = out.clip /\ UNCHANGED error
              [] out.next = "raise" ->
                   Raise(out.error) /\ UNCHANGED clip
    /\ UNCHANGED <<conc, agent, inputs, names, task_id, start, elapsed, attempt, coverErr,
                   result, files, posts, downloads, prevElapsed>>

\* a sleep that takes its argument for ticks instead of seconds (a mutant)
sleep_ticks_short(iv) == iv

\* a sleep that returns at once (a mutant)
sleep_ticks_none(iv) == 0

\* the ticks that pass in time.sleep(interval)
sleep_ticks(iv) == iv * TicksPerSec

\* the return of the succeeded Clip missing, so that the iteration falls through
\* to the sleep at the bottom of the loop (a mutant)
PollSleep_after_return ==
    /\ pc \in {"sleep", "download"}
    /\ now' = now + sleep_ticks(interval)
    /\ pc' = "loop"
    /\ UNCHANGED <<conc, agent, inputs, names, task_id, resp, clip, coverErr, result, error,
                   files, counters, pollLocals>>

\* time.sleep(interval), then the loop is re-entered
PollSleep ==
    /\ pc = "sleep"
    /\ now' = now + sleep_ticks(interval)
    /\ pc' = "loop"
    /\ UNCHANGED <<conc, agent, inputs, names, task_id, resp, clip, coverErr, result, error,
                   files, counters, pollLocals>>

\* ------------------------------------------------------------ _download_audio

\* open(path, "wb") followed by f.write(content): the file holds content
WriteFile(fs, name, content) ==
    {f \in fs : f[1] # name} \cup {<<name, content>>}

FileNames(fs) == {f[1] : f \in fs}

\* the exception, if any, of requests.get + raise_for_status + open/write for
\* one artifact: "none" when the artifact was written
fetch_error(r, w) ==
    IF r.net = "error" THEN "RequestException"
    ELSE IF RaisesForStatus(r.status) THEN "HTTPError"
    ELSE IF w # "ok" THEN "OSError"
    ELSE "none"

\* the directory after the get and the with open(...) block of one artifact:
\* nothing is opened when the request raised, the open truncates the file, and
\* a write that raised leaves it torn
files_after(fs, name, content, r, w) ==
    IF r.net = "error" \/ RaisesForStatus(r.status) \/ w = "open_error" THEN {fs}
    ELSE IF w = "write_error" THEN {WriteFile(fs, name, c) : c \in TornContents}
    ELSE {WriteFile(fs, name, content)}

\* the cover path after the cover block with the except clause setting
\* nothing: the path of a cover that was not written is kept (a mutant)
cover_path_kept(cover_filename, err) == cover_filename

\* the cover path after the try / except of the cover block: the path when the
\* download and the write succeeded, None when any exception was caught
cover_path_after(cover_filename, err) ==
    IF err = "none" THEN cover_filename ELSE NoPath

\* the result dict reading the clip id under the key "id" (a mutant)
download_result_wrong_key(c, audio_filepath, cover_filepath) ==
    [audio_path |-> audio_filepath,
     cover_path |-> cover_filepath,
     title |-> Get(c, "title"),
     tags |-> Get(c, "tags"),
     duration |-> Get(c, "duration"),
     clip_id |-> Get(c, "id")]

\* the dict built from the Clip at the end of _download_audio
download_result(c, audio_filepath, cover_filepath) ==
    [audio_path |-> audio_filepath,
     cover_path |-> cover_filepath,
     title |-> Get(c, "title"),
     tags |-> Get(c, "tags"),
     duration |-> Get(c, "duration"),
     clip_id |-> Get(c, "clip_id")]

\* the audio test written as a key lookup: an empty or null audio_url passes
\* (a mutant)
missing_audio_absent_only(c) == "audio_url" \notin DOMAIN c

\* not clip.get("audio_url")
missing_audio(c) == ~Truthy(Get(c, "audio_url"))

\* _download_audio up to the cover block: the audio_url check, the download
\* of the audio and its write under OUTPUT_DIR / filename
DownloadAudio ==
    /\ pc = "download"
    /\ IF missing_audio(clip)
       THEN /\ Raise([cls |-> "SunoClientError", kind |-> "MissingArtifact", clip |-> clip])
            /\ UNCHANGED <<resp, files, downloads>>
       ELSE \E r \in DownloadResponses, w \in WriteOutcomes :
              LET err == fetch_error(r, w) IN
              /\ downloads' = downloads + 1
              /\ resp' = r
              /\ files' \in files_after(files, filename, "audio", r, w)
              /\ IF err = "none"
                 THEN /\ pc' = "cover"
                      /\ UNCHANGED error
                 ELSE Raise([cls |-> err, kind |-> "DownloadError"])
    /\ UNCHANGED <<conc, agent, inputs, names, task_id, now, clip, coverErr, result, posts,
                   gets, pollLocals>>

\* the rest of _download_audio: the best-effort cover download, the result
\* dict, and the return of generate_music_from_prompt_en
DownloadCover ==
    /\ pc = "cover"
    /\ IF Truthy(Get(clip, "image_url"))
       THEN \E r \in DownloadResponses, w \in WriteOutcomes :
              LET err == fetch_error(r, w)
                  cover_filename == CoverFilename(filename)
              IN
              /\ downloads' = downloads + 1
              /\ resp' = r
              /\ files' \in files_after(files, cover_filename, "cover", r, w)
              /\ coverErr' = err
              /\ result' = download_result(clip, filename,
                                           cover_path_after(cover_filename, err))
       ELSE /\ result' = download_result(clip, filename, NoPath)
            /\ UNCHANGED <<resp, files, downloads, coverErr>>
    /\ pc' = "returned"
    /\ UNCHANGED <<conc, agent, inputs, names, task_id, now, clip, error, posts, gets,
                   pollLocals>>

\* ------------------------------------------------------------ specifications

Next ==
    \/ Enter
    \/ CreateTask
    \/ PollStart
    \/ PollCheck
    \/ PollQuery
    \/ PollSleep
    \/ DownloadAudio
    \/ DownloadCover

Spec == Init /\ [][Next]_vars

\* _slugify applied to every title of the bounded alphabet
SlugInit == InitWith(Titles, {<<0, 0>>}) /\ AgentOff /\ ConcOff

SlugNext == Enter

SlugSpec == SlugInit /\ [][SlugNext]_vars

\* the waits of a call that sleeps between its queries: interval >= 1
PollConfigs == {c \in WaitConfigs : c[2] >= 1}

\* a configured call with one title, whose poll loop is the subject
PollInit == InitWith({<<"a">>}, PollConfigs) /\ apiKey = TRUE /\ AgentOff /\ ConcOff

\* the call runs on one thread that is never suspended for good: every request
\* carries timeout=60 and time.sleep(interval) returns, so the next statement
\* of the call is eventually executed
FairPollSpec == PollInit /\ [][Next]_vars /\ WF_vars(Next)

\* ------------------------------------------------- the listener (agent.py)

\* requests one listener run may handle
MaxRequests == 2

\* max_wait=360 and interval=15 of the call in Step2
AgentMaxWait == 360
AgentInterval == 15

\* time.sleep(2) of the preset branch of Step2
EasterEggDelay == 2

\* title="Hakimi Meme Track"
HakimiMemeTrack ==
    <<"H", "a", "k", "i", "m", "i", " ", "M", "e", "m", "e", " ",
      "T", "r", "a", "c", "k">>

\* the request text that selects the preset audio, one element per character
EasterEggNeed == <<"cong", "cong", "na", "nian">>

\* Path("covers/cover.jpg")
LocalCover == <<"covers/cover.jpg">>

\* the music_result built by the preset branch of Step2
EasterEggResult ==
    [audio_path |-> <<"output/music/hanian.mp3">>,
     cover_path |-> NoPath,
     title |-> "cong cong na nian",
     tags |-> "nostalgic, emotional",
     duration |-> "unknown",
     clip_id |-> "easter_egg"]

\* str.lower() on the characters of the model's input lines
Lower(s) == [i \in 1..Len(s) |-> IF s[i] = "Q" THEN "q" ELSE s[i]]

\* {"exit", "quit", "q"}
ExitWords == {<<"e", "x", "i", "t">>, <<"q", "u", "i", "t">>, <<"q">>}

\* the lines input() may return
InputLines ==
    {<<>>, <<" ">>, <<"a">>, <<" ", "a", " ">>, <<"Q">>, <<"e", "x", "i", "t">>,
     EasterEggNeed}

\* what generate_music_prompt does: it raises, returns None, or returns a dict
PromptResults ==
    {[kind |-> "raise"],
     [kind |-> "notdict"],
     [kind |-> "dict"],
     [kind |-> "dict", music_prompt_en |-> <<" ">>],
     [kind |-> "dict", music_prompt_en |-> <<"p">>],
     [kind |-> "dict", truthy_nonstring |-> 5]}

\* (result.get("music_prompt_en") or "").strip() raises AttributeError: the
\* value is truthy and not a string (json.loads gives numbers, lists, objects)
prompt_raises(r) == "truthy_nonstring" \in DOMAIN r

\* the clock ticks that pass in a wait of h hundredths of a second, a begun
\* tick counted whole
hundredths_ticks(h) == (h * TicksPerSec + 99) \div 100

\* click_submit_button looks for the button at most max_scroll times
MaxScroll == 15

\* the waits of click_upload_and_choose_file in hundredths of a second:
\* time.sleep(3), moveTo(duration=0.5), time.sleep(2), time.sleep(0.2) twice,
\* and the pause of 0.1 s pyautogui makes after each of its five calls
UploadWaits == 300 + 50 + 200 + 20 + 20 + 5 * 10

\* the waits of click_submit_button when it never finds the button, its
\* longest run: pyautogui.scroll with its pause and time.sleep(0.7), each
\* max_scroll times
SubmitWaits == MaxScroll * (10 + 70)

\* page.wait_for_timeout(60) and page.wait_for_timeout(10_000)
PageWaits == 6 + 1000

\* the longest the waits of publish_to_bilibili take together
MaxPublishDelay == hundredths_ticks(UploadWaits + SubmitWaits + PageWaits)

\* the clock ticks the waits of publish_to_bilibili may take: any part of the
\* longest, since a step may be skipped (a missing file, a button that is not
\* found or is found at once), an exception may end the run midway, and the
\* page and pyautogui time their own waits. What the browser, the network and
\* the user at an input() prompt take on top is not counted.
PublishDelays == 0..MaxPublishDelay

\* (result.get("music_prompt_en") or "").strip()
prompt_text(r) ==
    IF "music_prompt_en" \in DOMAIN r THEN Strip(r.music_prompt_en, Whitespace)
    ELSE <<>>

\* config.ensure_configured(): the .env file exists and holds both required
\* keys; env_ok stands for the file and the other key
ensure_configured(env_ok) == env_ok /\ apiKey

requestLocals == <<user_need, music_prompt_en, music_result, cover_path>>
requestHistory == <<generations, renders, publishes, reported>>

\* the variables of one call of generate_music_from_prompt_en
callVars ==
    <<title, max_wait, interval, pc, names, task_id, resp, clip, coverErr,
      result, error, counters, pollLocals>>

\* no call of generate_music_from_prompt_en is running: its frame holds nothing
CallIdle ==
    /\ pc = "idle"
    /\ title = <<>>
    /\ max_wait = 0
    /\ interval = 0
    /\ safe_title = <<>>
    /\ filename = <<>>
    /\ task_id = None
    /\ start = 0
    /\ elapsed = -1
    /\ attempt = 0
    /\ resp = NoResp
    /\ clip = NoClip
    /\ coverErr = "none"
    /\ result = NoResult
    /\ error = NoError
    /\ posts = 0
    /\ gets = 0
    /\ downloads = 0
    /\ prevElapsed = -1
    /\ connFailures = 0
    /\ rttTotal = 0

\* generate_music_from_prompt_en(title=t, max_wait=mw, interval=iv) is entered
StartCall(t, mw, iv) ==
    /\ pc' = "call"
    /\ title' = t
    /\ max_wait' = mw
    /\ interval' = iv
    /\ UNCHANGED <<names, task_id, resp, clip, coverErr, result, error,
                   counters, pollLocals>>

\* the call has returned or raised: its frame is gone
EndCall ==
    /\ pc' = "idle"
    /\ title' = <<>>
    /\ max_wait' = 0
    /\ interval' = 0
    /\ safe_title' = <<>>
    /\ filename' = <<>>
    /\ task_id' = None
    /\ start' = 0
    /\ elapsed' = -1
    /\ attempt' = 0
    /\ resp' = NoResp
    /\ clip' = NoClip
    /\ coverErr' = "none"
    /\ result' = NoResult
    /\ error' = NoError
    /\ posts' = 0
    /\ gets' = 0
    /\ downloads' = 0
    /\ prevElapsed' = -1
    /\ connFailures' = 0
    /\ rttTotal' = 0

\* handle_user_request returns: its locals are gone; the listener prints that
\* it waits for the next request, run_hakimi_agent_once returns
ReturnToLoop(how) ==
    /\ lpc' = IF entry = "once" THEN "stopped" ELSE "input"
    /\ last' = how
    /\ user_need' = <<>>
    /\ music_prompt_en' = <<>>
    /\ music_result' = NoResult
    /\ cover_path' = NoPath

\* the frame of handle_user_request is unwound by an exception: its locals
\* are gone
Unwind ==
    /\ user_need' = <<>>
    /\ music_prompt_en' = <<>>
    /\ music_result' = NoResult
    /\ cover_path' = NoPath

\* an exception leaves handle_user_request and the entry point uncaught
Crash ==
    /\ lpc' = "crashed"
    /\ last' = "crashed"
    /\ Unwind

\* KeyboardInterrupt leaves handle_user_request and the entry point uncaught
Interrupted ==
    /\ lpc' = "crashed"
    /\ last' = "interrupted"
    /\ Unwind

\* the head of handle_user_request for one line: the line is stripped and an
\* empty one is skipped. The program only ever uses differences of
\* time.time(), so the clock is counted from the moment the request is
\* accepted.
AcceptRequest(line) ==
    LET need == Strip(line, Whitespace) IN
    /\ served' = served + 1
    /\ now' = 0
    /\ generations' = 0
    /\ renders' = 0
    /\ publishes' = 0
    /\ reported' = NoError
    /\ IF need = <<>>
       THEN ReturnToLoop("skipped")
       ELSE /\ lpc' = "step1"
            /\ user_need' = need
            /\ UNCHANGED <<music_prompt_en, music_result, cover_path, last>>

\* the state in which run_hakimi_agent_listener or run_hakimi_agent_once is
\* entered
ListenerInit ==
    /\ entry \in {"listener", "once"}
    /\ apiKey \in BOOLEAN
    /\ now = 0
    /\ files = {}
    /\ ConcOff
    /\ CallIdle
    /\ lpc = "start"
    /\ user_need = <<>>
    /\ music_prompt_en = <<>>
    /\ music_result = NoResult
    /\ cover_path = NoPath
    /\ video = "none"
    /\ served = 0
    /\ generations = 0
    /\ renders = 0
    /\ publishes = 0
    /\ reported = NoError
    /\ last = "none"

\* run_hakimi_agent_listener up to its loop
ListenerStart ==
    /\ entry = "listener"
    /\ lpc = "start"
    /\ \E env_ok \in BOOLEAN :
         lpc' = IF ensure_configured(env_ok) THEN "input" ELSE "stopped"
    /\ UNCHANGED <<conc, entry, apiKey, now, files, callVars, requestLocals, requestHistory,
                   video, served, last>>

\* run_hakimi_agent_once up to its input()
OnceStart ==
    /\ entry = "once"
    /\ lpc = "start"
    /\ \E env_ok \in BOOLEAN :
         lpc' = IF ensure_configured(env_ok) THEN "once_input" ELSE "stopped"
    /\ UNCHANGED <<conc, entry, apiKey, now, files, callVars, requestLocals, requestHistory,
                   video, served, last>>

\* the input() of run_hakimi_agent_once, outside any try: KeyboardInterrupt
\* and EOFError leave the function, and every line, an exit word too, is
\* handed to handle_user_request
OnceInput ==
    /\ lpc = "once_input"
    /\ \/ /\ Crash
          /\ UNCHANGED <<now, requestHistory, served>>
       \/ \E line \in InputLines : AcceptRequest(line)
    /\ UNCHANGED <<conc, entry, apiKey, files, callVars, video>>

\* one pass of the loop up to Step1: an interrupt or the end of the input
\* inside input() ends the loop, and so does an exit word; otherwise the
\* stripped line is handed to handle_user_request. The try holds input()
\* alone: a Ctrl-C that arrives before input() is called or after it has
\* returned (the exit test, the print after the request) leaves
\* run_hakimi_agent_listener uncaught
ReadInput ==
    /\ lpc = "input"
    /\ \/ /\ lpc' = "stopped"
          /\ UNCHANGED <<now, requestLocals, requestHistory, served, last>>
       \/ /\ Interrupted
          /\ UNCHANGED <<now, requestHistory, served>>
       \/ \E line \in InputLines :
            LET need == Strip(line, Whitespace) IN
            IF Lower(need) \in ExitWords
            THEN /\ lpc' = "stopped"
                 /\ UNCHANGED <<now, requestLocals, requestHistory, served, last>>
            ELSE /\ served < MaxRequests
                 /\ AcceptRequest(need)
    /\ UNCHANGED <<conc, entry, apiKey, files, callVars, video>>

\* Step1: generate_music_prompt and the checks of what it returned; the
\* strip of the prompt is outside the try, so its AttributeError leaves
\* handle_user_request
Step1 ==
    /\ lpc = "step1"
    /\ \E r \in PromptResults :
         IF r.kind = "dict" /\ prompt_raises(r)
         THEN Crash
         ELSE IF r.kind # "dict" \/ prompt_text(r) = <<>>
         THEN ReturnToLoop("skipped")
         ELSE /\ music_prompt_en' = prompt_text(r)
              /\ lpc' = "step2"
              /\ UNCHANGED <<user_need, music_result, cover_path, last>>
    /\ UNCHANGED <<conc, entry, apiKey, now, files, callVars, requestHistory, video, served>>

\* Step2 up to the call: the preset audio for the preset request when its
\* file exists, otherwise generate_music_from_prompt_en is called
Step2 ==
    /\ lpc = "step2"
    /\ \E preset_file \in BOOLEAN :
         IF user_need = EasterEggNeed /\ preset_file
         THEN /\ now' = now + sleep_ticks(EasterEggDelay)
              /\ music_result' = EasterEggResult
              /\ lpc' = "select_cover"
              /\ UNCHANGED <<callVars, generations>>
         ELSE /\ StartCall(HakimiMemeTrack, AgentMaxWait, AgentInterval)
              /\ generations' = generations + 1
              /\ lpc' = "generate"
              /\ UNCHANGED <<now, music_result>>
    /\ UNCHANGED <<conc, entry, apiKey, files, user_need, music_prompt_en, cover_path, video,
                   served, renders, publishes, reported, last>>

\* the exception of the call leaving handle_user_request uncaught (a mutant)
GenerationRaised_uncaught ==
    /\ lpc = "generate"
    /\ pc = "raised"
    /\ EndCall
    /\ Crash
    /\ UNCHANGED <<conc, entry, apiKey, now, files, video, served, requestHistory>>

\* the except clause of Step2: the exception is printed and
\* handle_user_request returns
GenerationRaised ==
    /\ lpc = "generate"
    /\ pc = "raised"
    /\ reported' = error
    /\ EndCall
    /\ ReturnToLoop("gen_failed")
    /\ UNCHANGED <<conc, entry, apiKey, now, files, video, served, generations, renders,
                   publishes>>

\* the call returned: music_result is its result
GenerationReturned ==
    /\ lpc = "generate"
    /\ pc = "returned"
    /\ music_result' = result
    /\ EndCall
    /\ lpc' = "select_cover"
    /\ UNCHANGED <<conc, entry, apiKey, now, files, user_need, music_prompt_en, cover_path,
                   video, served, requestHistory, last>>

\* the choice of the cover: the downloaded cover when it is a file, otherwise
\* covers/cover.jpg, without which handle_user_request returns
SelectCover ==
    /\ lpc = "select_cover"
    /\ LET suno_cover_path == music_result.cover_path IN
       IF suno_cover_path # NoPath /\ suno_cover_path \in FileNames(files)
       THEN /\ cover_path' = suno_cover_path
            /\ lpc' = "render"
            /\ UNCHANGED <<user_need, music_prompt_en, music_result, last>>
       ELSE \E local_cover \in BOOLEAN :
              IF local_cover
              THEN /\ cover_path' = LocalCover
                   /\ lpc' = "render"
                   /\ UNCHANGED <<user_need, music_prompt_en, music_result, last>>
              ELSE ReturnToLoop("skipped")
    /\ UNCHANGED <<conc, entry, apiKey, now, files, callVars, requestHistory, video, served>>

\* Step3: audio_to_video, whose ffmpeg run either writes the video or raises;
\* ffmpeg is given -y and the output path, and what it had written when it
\* failed stays
Render ==
    /\ lpc = "render"
    /\ renders' = renders + 1
    /\ \E out \in {"ok", "CalledProcessError"} :
         IF out = "ok"
         THEN /\ video' = "written"
              /\ lpc' = "publish"
              /\ UNCHANGED <<requestLocals, last>>
         ELSE /\ Crash
              /\ video' \in {video, "written"}
    /\ UNCHANGED <<conc, entry, apiKey, now, files, callVars, served,
                   generations, publishes, reported>>

\* Step4: the import of the publisher, which may raise (ImportError is not
\* caught), then publish_to_bilibili, which waits between its clicks and
\* returns or raises, and after which handle_user_request returns
Publish ==
    /\ lpc = "publish"
    /\ \E out \in {"import_error", "ok", "raise"} :
         IF out = "import_error"
         THEN /\ Crash
              /\ UNCHANGED <<now, publishes>>
         ELSE /\ publishes' = publishes + 1
              /\ \E d \in PublishDelays : now' = now + d
              /\ IF out = "ok"
                 THEN ReturnToLoop("published")
                 ELSE Crash
    /\ UNCHANGED <<conc, entry, apiKey, files, callVars, video, served, generations,
                   renders, reported>>

\* the files an interrupted call may leave: a download interrupted between
\* its open and the end of its write leaves the file torn
interrupted_files ==
    IF pc = "download" /\ ~missing_audio(clip)
    THEN {files} \cup {WriteFile(files, filename, c) : c \in TornContents}
    ELSE IF pc = "cover" /\ Truthy(Get(clip, "image_url"))
    THEN {files} \cup {WriteFile(files, CoverFilename(filename), c) : c \in TornContents}
    ELSE {files}

\* the clock ticks a step may have waited when Ctrl-C ends it: any part of
\* the sleep or of the request it is in
interrupted_wait(begun) ==
    IF lpc = "generate" /\ pc = "sleep" THEN 0..sleep_ticks(interval)
    ELSE IF lpc = "generate" /\ pc = "query" THEN query_ticks
    ELSE IF lpc = "step2" /\ user_need = EasterEggNeed THEN 0..sleep_ticks(EasterEggDelay)
    ELSE IF lpc = "publish" /\ begun THEN 0..MaxPublishDelay
    ELSE {0}

\* Ctrl-C while handle_user_request runs: KeyboardInterrupt is no Exception,
\* so neither the except clause of Step1 nor that of Step2 catches it, and
\* nothing of the interrupted step is undone
Interrupt ==
    /\ lpc \in {"step1", "step2", "generate", "select_cover", "render", "publish"}
    /\ Interrupted
    /\ IF lpc = "generate"
       THEN /\ EndCall
            /\ files' \in interrupted_files
       ELSE UNCHANGED <<callVars, files>>
    /\ \E begun \in IF lpc \in {"render", "publish"} THEN BOOLEAN ELSE {FALSE} :
         /\ renders' = IF lpc = "render" /\ begun THEN renders + 1 ELSE renders
         /\ video' \in IF lpc = "render" /\ begun THEN {video, "written"} ELSE {video}
         /\ publishes' = IF lpc = "publish" /\ begun THEN publishes + 1 ELSE publishes
         /\ \E d \in interrupted_wait(begun) : now' = now + d
    /\ UNCHANGED <<conc, entry, apiKey, served, generations, reported>>

ListenerNext ==
    \/ ListenerStart
    \/ OnceStart
    \/ OnceInput
    \/ ReadInput
    \/ Step1
    \/ Step2
    \/ Enter
    \/ CreateTask
    \/ PollStart
    \/ PollCheck
    \/ PollQuery
    \/ PollSleep
    \/ DownloadAudio
    \/ DownloadCover
    \/ GenerationRaised
    \/ GenerationReturned
    \/ SelectCover
    \/ Render
    \/ Publish
    \/ Interrupt

ListenerSpec == ListenerInit /\ [][ListenerNext]_vars

\* ------------------------------- concurrent calls sharing OUTPUT_DIR

\* calls of generate_music_from_prompt_en running at the same time
MaxCalls == 2

CallIds == 1..MaxCalls

\* the titles of the concurrent calls: two with the same slug, one with
\* another
ConcTitles == {<<"a">>, <<"a", "!">>, <<"7">>}

\* resp.content of a download: bodies of different lengths
ConcBodies == {<<"x", "x">>, <<"y">>}

\* the frame of a call that was just entered with title t. start is the
\* start of its poll and wake the clock value at which the request or the
\* sleep the call is in ends; wrote and failed are history: the files the call
\* has opened for writing, and those among them whose write raised
FreshCall(t) ==
    [pc |-> "call", title |-> t, filename |-> <<>>, start |-> 0, wake |-> 0,
     clip |-> NoClip, content |-> <<>>, result |-> NoResult, error |-> NoError,
     wrote |-> {}, failed |-> {}]

\* the class and kind of an exception
ErrKind(e) == [cls |-> e.cls, kind |-> e.kind]

\* the arguments max_wait and interval of the concurrent calls, seconds
ConcMaxWait == 1
ConcInterval == 1

\* the clock when a call whose wait ends at wake runs on: the calls wait at
\* the same time, and a call is not scheduled before its wait is over
ClockAfterWait(wake) == IF wake > now THEN wake ELSE now

\* the proper prefixes of content: what a write that raised may have written
TornWrites(content) == {SubSeq(content, 1, n) : n \in 0..(Len(content) - 1)}

\* the content of the file called name
ContentOf(fs, name) == (CHOOSE f \in fs : f[1] = name)[2]

\* open(path, "wb"): the file is created or truncated
OpenTruncate(fs, name) == WriteFile(fs, name, <<>>)

\* f.write(content) through a handle positioned at the start, then close: the
\* bytes replace the start of the file and what lies beyond them stays
WriteAtStart(fs, name, content) ==
    LET old == ContentOf(fs, name) IN
    WriteFile(fs, name, content \o SubSeq(old, Len(content) + 1, Len(old)))

\* the state in which the concurrent calls are entered
ConcInit ==
    /\ apiKey = TRUE
    /\ now = 0
    /\ files = {}
    /\ CallIdle
    /\ AgentOff
    /\ calls \in [CallIds -> {FreshCall(t) : t \in ConcTitles}]
    /\ lastWrite = {}

\* what the concurrent calls leave alone
concRest == <<apiKey, callVars, agent>>

\* call i: safe_title and filename
ConcEnter(i) ==
    /\ calls[i].pc = "call"
    /\ calls' = [calls EXCEPT ![i].pc = "generate",
                              ![i].filename = AudioFilename(slugify(calls[i].title))]
    /\ UNCHANGED <<files, lastWrite>>
    /\ UNCHANGED <<now, concRest>>

\* call i: _create_suno_task, and start = time.time() of _poll_suno_task
ConcCreate(i) ==
    /\ calls[i].pc = "generate"
    /\ \E r \in CreateResponses :
         LET out == create_outcome(r) IN
         IF out.ok
         THEN calls' = [calls EXCEPT ![i].pc = "loop", ![i].start = now, ![i].wake = now]
         ELSE calls' = [calls EXCEPT ![i].pc = "raised", ![i].error = ErrKind(out.error)]
    /\ UNCHANGED <<files, lastWrite>>
    /\ UNCHANGED <<now, concRest>>

\* call i: the head of one iteration of the poll, after the sleep of the
\* iteration before: the timeout is raised, or the status query is sent, whose
\* answer takes rtt ticks
ConcPollCheck(i) ==
    /\ calls[i].pc = "loop"
    /\ now' = ClockAfterWait(calls[i].wake)
    /\ IF deadline_passed(ElapsedAt(now', calls[i].start), ConcMaxWait)
       THEN calls' = [calls EXCEPT
                        ![i].pc = "raised",
                        ![i].start = 0,
                        ![i].wake = 0,
                        ![i].error = ErrKind(poll_timeout_error(ConcMaxWait, None))]
       ELSE \E rtt \in 0..MaxRtt :
              calls' = [calls EXCEPT ![i].pc = "query", ![i].wake = now' + rtt]
    /\ UNCHANGED <<files, lastWrite>>
    /\ UNCHANGED concRest

\* call i: the answer to the status query and what the iteration does with
\* it: it raises, returns the Clip, or goes to sleep for ConcInterval seconds
ConcPollQuery(i) ==
    /\ calls[i].pc = "query"
    /\ now' = ClockAfterWait(calls[i].wake)
    /\ \E r \in StatusResponses :
         LET out == poll_outcome(r) IN
         CASE out.next = "sleep" ->
                calls' = [calls EXCEPT ![i].pc = "loop",
                                       ![i].wake = now' + sleep_ticks(ConcInterval)]
           [] out.next = "return" ->
                calls' = [calls EXCEPT ![i].pc = "audio_get", ![i].start = 0,
                                       ![i].wake = 0, ![i].clip = out.clip]
           [] out.next = "raise" ->
                calls' = [calls EXCEPT ![i].pc = "raised", ![i].start = 0,
                                       ![i].wake = 0, ![i].error = ErrKind(out.error)]
    /\ UNCHANGED <<files, lastWrite>>
    /\ UNCHANGED concRest

\* call i: the audio_url check and the download of the audio
ConcAudioGet(i) ==
    /\ calls[i].pc = "audio_get"
    /\ IF missing_audio(calls[i].clip)
       THEN calls' = [calls EXCEPT
                        ![i].pc = "raised",
                        ![i].error = [cls |-> "SunoClientError", kind |-> "MissingArtifact"]]
       ELSE \E r \in DownloadResponses, body \in ConcBodies :
              LET err == fetch_error(r, "ok") IN
              IF err = "none"
              THEN calls' = [calls EXCEPT ![i].pc = "audio_open", ![i].content = body]
              ELSE calls' = [calls EXCEPT
                               ![i].pc = "raised",
                               ![i].error = [cls |-> err, kind |-> "DownloadError"]]
    /\ UNCHANGED <<files, lastWrite>>
    /\ UNCHANGED <<now, concRest>>

\* call i: open(audio_filepath, "wb")
ConcAudioOpen(i) ==
    /\ calls[i].pc = "audio_open"
    /\ \E w \in WriteOutcomes \ {"write_error"} :
         IF w = "ok"
         THEN /\ files' = OpenTruncate(files, calls[i].filename)
              /\ calls' = [calls EXCEPT ![i].pc = "audio_write",
                                        ![i].wrote = @ \cup {calls[i].filename}]
         ELSE /\ calls' = [calls EXCEPT
                             ![i].pc = "raised",
                             ![i].error = [cls |-> "OSError", kind |-> "DownloadError"]]
              /\ UNCHANGED files
    /\ UNCHANGED lastWrite
    /\ UNCHANGED <<now, concRest>>

\* call i: f.write(resp.content) and the close of the audio file; when the
\* write raises, a part of the content at most has reached the file
ConcAudioWrite(i) ==
    /\ calls[i].pc = "audio_write"
    /\ \E w \in WriteOutcomes \ {"open_error"} :
         IF w = "ok"
         THEN /\ files' = WriteAtStart(files, calls[i].filename, calls[i].content)
              /\ lastWrite' = WriteFile(lastWrite, calls[i].filename, calls[i].content)
              /\ calls' = [calls EXCEPT ![i].pc = "cover_get", ![i].content = <<>>]
         ELSE /\ \E part \in TornWrites(calls[i].content) :
                   files' = WriteAtStart(files, calls[i].filename, part)
              /\ calls' = [calls EXCEPT
                             ![i].pc = "raised",
                             ![i].content = <<>>,
                             ![i].failed = @ \cup {calls[i].filename},
                             ![i].error = [cls |-> "OSError", kind |-> "DownloadError"]]
              /\ UNCHANGED lastWrite
    /\ UNCHANGED <<now, concRest>>

\* call i returns the result dict with cover path cover_filepath
ConcReturn(i, cover_filepath) ==
    [calls EXCEPT ![i].pc = "returned",
                  ![i].content = <<>>,
                  ![i].result = download_result(calls[i].clip, calls[i].filename,
                                                cover_filepath)]

\* call i: the image_url check and the download of the cover
ConcCoverGet(i) ==
    /\ calls[i].pc = "cover_get"
    /\ IF Truthy(Get(calls[i].clip, "image_url"))
       THEN \E r \in DownloadResponses, body \in ConcBodies :
              IF fetch_error(r, "ok") = "none"
              THEN calls' = [calls EXCEPT ![i].pc = "cover_open", ![i].content = body]
              ELSE calls' = ConcReturn(i, NoPath)
       ELSE calls' = ConcReturn(i, NoPath)
    /\ UNCHANGED <<files, lastWrite>>
    /\ UNCHANGED <<now, concRest>>

\* call i: open(cover_filepath, "wb")
ConcCoverOpen(i) ==
    /\ calls[i].pc = "cover_open"
    /\ \E w \in WriteOutcomes \ {"write_error"} :
         IF w = "ok"
         THEN /\ files' = OpenTruncate(files, CoverFilename(calls[i].filename))
              /\ calls' = [calls EXCEPT
                             ![i].pc = "cover_write",
                             ![i].wrote = @ \cup {CoverFilename(calls[i].filename)}]
         ELSE /\ calls' = ConcReturn(i, NoPath)
              /\ UNCHANGED files
    /\ UNCHANGED lastWrite
    /\ UNCHANGED <<now, concRest>>

\* call i: f.write(resp.content) and the close of the cover file, the result
\* dict and the return; a write that raised is caught, leaves a part of the
\* content at most in the file, and the cover path is None
ConcCoverWrite(i) ==
    /\ calls[i].pc = "cover_write"
    /\ LET cover_filename == CoverFilename(calls[i].filename) IN
       \E w \in WriteOutcomes \ {"open_error"} :
         IF w = "ok"
         THEN /\ files' = WriteAtStart(files, cover_filename, calls[i].content)
              /\ lastWrite' = WriteFile(lastWrite, cover_filename, calls[i].content)
              /\ calls' = ConcReturn(i, cover_filename)
         ELSE /\ \E part \in TornWrites(calls[i].content) :
                   files' = WriteAtStart(files, cover_filename, part)
              /\ calls' = [ConcReturn(i, NoPath) EXCEPT
                             ![i].failed = @ \cup {cover_filename}]
              /\ UNCHANGED lastWrite
    /\ UNCHANGED <<now, concRest>>

ConcNext ==
    \E i \in CallIds :
        \/ ConcEnter(i)
        \/ ConcCreate(i)
        \/ ConcPollCheck(i)
        \/ ConcPollQuery(i)
        \/ ConcAudioGet(i)
        \/ ConcAudioOpen(i)
        \/ ConcAudioWrite(i)
        \/ ConcCoverGet(i)
        \/ ConcCoverOpen(i)
        \/ ConcCoverWrite(i)

ConcSpec == ConcInit /\ [][ConcNext]_vars

\* ------------------------------------------------------- reading the state

\* _create_suno_task has just returned or raised; resp is its response
AfterCreate == posts = 1 /\ gets = 0 /\ pc \in {"poll", "raised"}

\* a transport-level well-formed answer: a 2xx status and a JSON object
WellFormed2xx(r) ==
    r.net = "ok" /\ r.status >= 200 /\ r.status <= 299 /\ r.shape = "object"

\* resp is the answer to a status query (no download has replaced it)
StatusObserved == gets >= 1 /\ downloads = 0 /\ resp # NoResp

\* a 200 answer with the recognized code whose first Clip has state st
FirstClipIs(r, st) ==
    /\ r.net = "ok" /\ r.status = 200 /\ r.shape = "object"
    /\ HasResult(r.body)
    /\ Get(r.body.data[1], "state") = st

\* the answers the spec calls pending: 202, a transport failure, a result
\* list that is missing or empty, a body without the recognized code, a first
\* Clip in an unknown state
PendingResponse(r) ==
    \/ r.net = "error"
    \/ r.net = "ok" /\ r.status = 202
    \/ /\ r.net = "ok" /\ r.status = 200 /\ r.shape = "object"
       /\ \/ ~HasResult(r.body)
          \/ Get(r.body.data[1], "state") \notin {"succeeded", "failed"}

TimedOut == pc = "raised" /\ error.kind = "PollTimeout"

\* ------------------------------------------------------------------ claims

\* C1: after a submission answered by a well-formed 2xx JSON object,
\* _create_suno_task has returned a handle if and only if message is exactly
\* "success" and task_id is present, the handle is that task_id, and every
\* other body raised ServiceRejected with no handle returned.
C1_HandleIffAcknowledged ==
    (AfterCreate /\ WellFormed2xx(resp)) =>
        LET acknowledged ==
                /\ "message" \in DOMAIN resp.body
                /\ resp.body.message = "success"
                /\ "task_id" \in DOMAIN resp.body
        IN
        /\ (pc = "poll") <=> acknowledged
        /\ pc = "poll" => task_id = resp.body.task_id
        /\ pc = "raised" =>
              /\ error.cls = "SunoClientError"
              /\ error.kind = "ServiceRejected"
              /\ task_id = None

C1_Witness ==
    /\ AfterCreate /\ WellFormed2xx(resp)
    /\ resp.status = 201
    /\ pc = "poll"
    /\ task_id = "abc123"

\* C2: _poll_suno_task returns a Clip only from an iteration whose answer is
\* a 200 with the recognized code and a first Clip in state "succeeded", and
\* the Clip is that one; while the last answer is pending the call is still
\* polling, or it has raised the timeout at a check with elapsed > max_wait.
C2_NoReturnWhilePending ==
    /\ pc = "download" =>
          /\ FirstClipIs(resp, "succeeded")
          /\ clip = resp.body.data[1]
    /\ (StatusObserved /\ PendingResponse(resp)) =>
          /\ clip = NoClip
          /\ \/ pc \in {"sleep", "loop", "query"}
             \/ TimedOut /\ elapsed > max_wait

C2_Witness ==
    /\ pc = "download"
    /\ gets >= 3
    /\ connFailures = 0

\* C3: a 200 answer whose first Clip is succeeded makes the poll call return
\* that Clip, however many status queries failed at the connection level
\* before it; a connection failure of a status query never reaches the caller
\* as an exception.
C3_TransportFailuresSwallowed ==
    /\ (StatusObserved /\ FirstClipIs(resp, "succeeded")) =>
          /\ clip = resp.body.data[1]
          /\ pc = "download" \/ (pc = "raised" /\ error.kind = "MissingArtifact")
    /\ (StatusObserved /\ pc = "raised") =>
          /\ error.cls # "RequestException"
          /\ resp.net = "error" => error.kind = "PollTimeout"

C3_Witness ==
    /\ pc = "download"
    /\ connFailures >= 2
    /\ clip = ClipB

\* C4 as claimed: the exception of the deadline check carries the job handle
\* and the elapsed time.
C4_TimeoutCarriesElapsed ==
    TimedOut =>
        /\ "task_id" \in DOMAIN error
        /\ "elapsed" \in DOMAIN error

\* C4, amended: an iteration that starts with elapsed > max_wait raises
\* PollTimeout without another status query, and the exception carries the
\* job handle and max_wait (the elapsed time is not in it).
C4_TimeoutWithoutQuery ==
    [][(pc = "loop" /\ ElapsedAt(now, start) > max_wait) =>
          /\ pc' = "raised"
          /\ error'.cls = "SunoClientError"
          /\ error'.kind = "PollTimeout"
          /\ DOMAIN error' = {"cls", "kind", "max_wait", "task_id"}
          /\ error'.task_id = task_id
          /\ error'.max_wait = max_wait
          /\ gets' = gets
          /\ attempt' = attempt]_vars

C4_Witness ==
    /\ TimedOut
    /\ gets >= 2
    /\ gets = attempt
    /\ error.task_id = "abc123"

\* C5 as claimed: with only pending answers, PollTimeout is raised no earlier
\* than max_wait after the start and no later than max_wait plus one interval
\* plus one request round trip.
C5_TimeoutWithinOneRoundTrip ==
    TimedOut =>
        /\ now - start >= max_wait * TicksPerSec
        /\ now - start <= (max_wait + interval) * TicksPerSec + MaxRtt

\* C5, amended: with only pending answers, PollTimeout is raised no earlier
\* than max_wait after the start and no later than max_wait plus one interval
\* plus the round trips of all the status queries of the call; so it is with
\* max_wait = 30 and interval = 15.
C5_TimeoutWithinRoundTrips ==
    TimedOut =>
        /\ now - start >= max_wait * TicksPerSec
        /\ now - start <= (max_wait + interval) * TicksPerSec + rttTotal

C5_Witness ==
    /\ TimedOut
    /\ max_wait = 30 /\ interval = 15
    /\ resp.status = 202
    /\ rttTotal >= 2
    /\ now - start > 45 * TicksPerSec

\* the cover download was attempted (the audio was request 1, the cover 2)
CoverAttempted == pc = "returned" /\ downloads = 2

\* C6 as claimed: after a succeeded Clip whose audio was downloaded, a cover
\* download that met a connection error, a non-2xx status or a file-write
\* error leaves the call returning a result with the audio path set and the
\* cover exactly none.
C6_CoverNoneOnNon2xx ==
    (CoverAttempted /\ (resp.net = "error"
                        \/ resp.status < 200 \/ resp.status > 299
                        \/ coverErr = "OSError")) =>
        /\ result.audio_path = filename
        /\ result.cover_path = NoPath

\* C6, amended: after a succeeded Clip whose audio was downloaded, a cover
\* download that met a connection error, a 4xx or 5xx status or a file-write
\* error never fails the call: the result is returned with the audio path
\* set and the cover exactly none; no exception leaves the call once the
\* audio is written.
C6_CoverFailureNonFatal ==
    /\ (CoverAttempted /\ (resp.net = "error"
                           \/ (resp.status >= 400 /\ resp.status <= 599)
                           \/ coverErr = "OSError")) =>
          /\ result.audio_path = filename
          /\ filename \in FileNames(files)
          /\ result.cover_path = NoPath
    /\ pc = "raised" => downloads <= 1
    /\ pc = "cover" => (error = NoError /\ downloads = 1)

C6_Witness ==
    /\ CoverAttempted
    /\ resp.net = "error"
    /\ clip = ClipFull
    /\ result.audio_path = filename
    /\ result.cover_path = NoPath

\* the characters a slug may hold: alphanumerics, underscore and hyphen
SlugChars == {"a", "7", "h", "k", "i", "m", "t", "r", "c", "_", "-"}

\* the title is empty or holds no alphanumeric, underscore or hyphen
OnlyDisallowed(t) == \A i \in 1..Len(t) : t[i] \notin SlugChars

\* C7: the slug of a title is never empty, holds only alphanumerics,
\* underscore and hyphen, and is "hakimi_track" when the title is empty, only
\* whitespace or made only of disallowed characters; the file name is the
\* slug followed by ".mp3".  (That equal titles give equal slugs needs no
\* check: the slug is computed from the title alone.)
C7_SlugNeverEmpty ==
    pc = "create" =>
        /\ safe_title # <<>>
        /\ \A i \in 1..Len(safe_title) : safe_title[i] \in SlugChars
        /\ OnlyDisallowed(title) => safe_title = HakimiTrack
        /\ filename = safe_title \o DotMp3

C7_Witness ==
    /\ pc = "create"
    /\ title = <<"!", " ", ".">>
    /\ safe_title = HakimiTrack

\* C8 as claimed: the elapsed of every deadline check after the first is
\* strictly greater than the elapsed of the check before it.
C8_ElapsedStrictlyGrows ==
    prevElapsed >= 0 => elapsed > prevElapsed

\* C8, amended: in a poll call with interval >= 1 the elapsed of every
\* deadline check after the first is strictly greater than the elapsed of
\* the check before it; with interval = 0 it is never smaller.
C8_ElapsedGrowsWithInterval ==
    prevElapsed >= 0 =>
        /\ elapsed >= prevElapsed
        /\ interval >= 1 => elapsed > prevElapsed

C8_Witness ==
    /\ interval = 1
    /\ attempt >= 2
    /\ prevElapsed >= 1
    /\ elapsed > prevElapsed

\* C9: a 200 answer with the recognized code whose first Clip is failed ends
\* the call at once with JobFailed carrying that Clip: no status query
\* follows it, no download is requested and no file is written.
C9_FailedClipEndsCall ==
    (gets >= 1 /\ FirstClipIs(resp, "failed")) =>
        /\ pc = "raised"
        /\ error.cls = "SunoClientError"
        /\ error.kind = "JobFailed"
        /\ error.clip = resp.body.data[1]
        /\ gets = attempt
        /\ downloads = 0
        /\ files = {}
        /\ clip = NoClip
        /\ result = NoResult

C9_Witness ==
    /\ pc = "raised"
    /\ error.kind = "JobFailed"
    /\ error.clip = ClipFailed
    /\ gets >= 2

\* C10: a returned result holds the title, tags, duration and clip id of the
\* succeeded Clip, None for each that the Clip lacks, the audio path of the
\* file written, and no cover when the Clip has no image reference; after a
\* succeeded Clip with an audio reference only a failed audio download keeps
\* the call from returning.
C10_ResultFromClip ==
    /\ pc = "returned" =>
          /\ Get(clip, "state") = "succeeded"
          /\ result.title = (IF "title" \in DOMAIN clip THEN clip.title ELSE None)
          /\ result.tags = (IF "tags" \in DOMAIN clip THEN clip.tags ELSE None)
          /\ result.duration = (IF "duration" \in DOMAIN clip THEN clip.duration ELSE None)
          /\ result.clip_id = (IF "clip_id" \in DOMAIN clip THEN clip.clip_id ELSE None)
          /\ result.audio_path = filename
          /\ <<filename, "audio">> \in files
          /\ ("image_url" \notin DOMAIN clip \/ clip.image_url \in {"", None}) =>
                result.cover_path = NoPath
    /\ (pc = "raised" /\ clip # NoClip /\ Truthy(Get(clip, "audio_url"))) =>
          /\ error.kind = "DownloadError"
          /\ downloads = 1

C10_Witness ==
    /\ pc = "returned"
    /\ gets >= 3
    /\ clip = ClipB
    /\ result.title = "T"
    /\ result.duration = "30"
    /\ result.tags = None
    /\ result.cover_path = NoPath

\* C11: a succeeded Clip whose audio_url is absent or empty makes
\* _download_audio raise MissingArtifact, carrying the Clip, before any
\* download request and before any file is written, and that exception is
\* the outcome of the whole call; MissingArtifact is raised for no other Clip.
C11_MissingAudioIsFatal ==
    /\ (clip # NoClip /\ pc # "download"
        /\ ("audio_url" \notin DOMAIN clip \/ clip.audio_url \in {"", None})) =>
          /\ pc = "raised"
          /\ error.cls = "SunoClientError"
          /\ error.kind = "MissingArtifact"
          /\ error.clip = clip
          /\ downloads = 0
          /\ files = {}
          /\ result = NoResult
    /\ (pc = "raised" /\ error.kind = "MissingArtifact") =>
          /\ clip # NoClip
          /\ "audio_url" \notin DOMAIN clip \/ clip.audio_url \in {"", None}

C11_Witness ==
    /\ pc = "raised"
    /\ error.kind = "MissingArtifact"
    /\ clip = ClipEmptyAudio
    /\ gets >= 2
    /\ downloads = 0

\* C12: with the API key absent the call ends in ConfigurationError and no
\* network request - submission, status query or download - is ever sent.
C12_NoKeyNoRequest ==
    ~apiKey =>
        /\ posts = 0 /\ gets = 0 /\ downloads = 0
        /\ files = {}
        /\ \/ pc \in {"call", "create"}
           \/ /\ pc = "raised"
              /\ error.cls = "SunoClientError"
              /\ error.kind = "ConfigurationError"

C12_Witness ==
    /\ ~apiKey
    /\ pc = "raised"
    /\ error.kind = "ConfigurationError"
    /\ posts = 0

\* the body of a create answer lacks the success marker or the handle
Unacknowledged(r) ==
    r.shape = "object" /\
        ("message" \notin DOMAIN r.body \/ r.body.message # "success"
         \/ "task_id" \notin DOMAIN r.body)

\* the exception came out of _create_suno_task after its request
SubmissionError == error.kind \in {"TransportError", "ServiceRejected"}

\* C13 as claimed: every call sends exactly one submission request, and a
\* submission that met a connection failure, a non-2xx status, a malformed
\* body or a rejection fails the call at once.
C13_OneSubmissionEveryCall ==
    /\ pc \in {"returned", "raised"} => posts = 1
    /\ (AfterCreate /\ (resp.net = "error"
                        \/ resp.status < 200 \/ resp.status > 299
                        \/ resp.shape # "object"
                        \/ Unacknowledged(resp))) =>
          (pc = "raised" /\ SubmissionError)

\* C13, amended: a call whose API key is set sends exactly one submission
\* request, whatever its outcome, and a call without key sends none; when
\* the submission fails (connection failure, 4xx or 5xx status, malformed
\* body or rejection) the failure ends the call at once, with no handle, and
\* no status query and no download is issued for that call.
C13_OneSubmissionNoRetry ==
    /\ posts <= 1
    /\ (apiKey /\ pc \notin {"call", "create"}) => posts = 1
    /\ ~apiKey => posts = 0
    /\ (AfterCreate /\ (resp.net = "error"
                        \/ (resp.status >= 400 /\ resp.status <= 599)
                        \/ resp.shape # "object"
                        \/ Unacknowledged(resp))) =>
          (pc = "raised" /\ SubmissionError /\ task_id = None)
    /\ (pc = "raised" /\ SubmissionError) =>
          (posts = 1 /\ gets = 0 /\ downloads = 0 /\ attempt = 0 /\ files = {})

C13_Witness ==
    /\ pc = "raised"
    /\ AfterCreate
    /\ resp.status = 500
    /\ error.cls = "HTTPError"
    /\ posts = 1 /\ gets = 0 /\ downloads = 0

\* the taxonomy kinds each step raises
CreateKinds == {"ConfigurationError", "TransportError", "ServiceRejected"}
PollKinds == {"PollTimeout", "ServiceError", "ProtocolError", "JobFailed", "Unclassified"}
DownloadKinds == {"MissingArtifact", "DownloadError"}

\* C14: the call ends either returned, with a result and no exception, or
\* raised, with no result and the exception of the step that failed, as that
\* step raised it; the steps run in the order submit, poll, download: a
\* status query is sent only after the submission returned a handle, a
\* download step runs only after the poll returned a succeeded Clip, and no
\* step runs again after an exception.
C14_FirstErrorUnmodified ==
    /\ pc = "returned" => (error = NoError /\ result # NoResult)
    /\ pc # "returned" => result = NoResult
    /\ pc # "raised" => error = NoError
    /\ pc = "raised" =>
          /\ error.cls \in {"SunoClientError", "RequestException", "HTTPError",
                            "JSONDecodeError", "AttributeError", "OSError"}
          /\ IF gets = 0 THEN error.kind \in CreateKinds
             ELSE IF clip = NoClip THEN error.kind \in PollKinds
             ELSE error.kind \in DownloadKinds
          /\ (AfterCreate /\ posts = 1) => error = create_outcome(resp).error
          /\ (StatusObserved /\ clip = NoClip /\ error.kind # "PollTimeout") =>
                error = poll_outcome(resp).error
    /\ pc \in {"poll", "loop", "query", "sleep"} => (posts = 1 /\ downloads = 0)
    /\ gets >= 1 => posts = 1
    /\ pc \in {"download", "cover"} =>
          (gets >= 1 /\ clip # NoClip /\ Get(clip, "state") = "succeeded")
    /\ downloads >= 1 => (gets >= 1 /\ clip # NoClip)
    /\ clip # NoClip => pc \in {"download", "cover", "returned", "raised"}
    /\ downloads <= 2

C14_Witness ==
    /\ pc = "raised"
    /\ error = [cls |-> "HTTPError", kind |-> "DownloadError"]
    /\ posts = 1 /\ gets >= 2 /\ downloads = 1
    /\ clip = ClipFull

\* the state of the poll state machine, read off the position of the call:
\* Polling inside the loop of _poll_suno_task; Succeeded once it returned a
\* Clip (the call is then downloading, or has ended after the download);
\* TimedOut once the deadline check raised; Failed once any other statement
\* of the loop raised; NotStarted before the loop is entered
PollState ==
    IF pc \in {"loop", "query", "sleep"} THEN "Polling"
    ELSE IF pc \in {"download", "cover", "returned"} THEN "Succeeded"
    ELSE IF pc = "raised" /\ error.kind \in DownloadKinds THEN "Succeeded"
    ELSE IF pc = "raised" /\ error.kind = "PollTimeout" THEN "TimedOut"
    ELSE IF pc = "raised" /\ error.kind \in PollKinds THEN "Failed"
    ELSE "NotStarted"

PollTerminal == PollState \in {"Succeeded", "Failed", "TimedOut"}

\* C15: the poll state machine has one non-terminal state, Polling, and the
\* terminal states Succeeded, Failed and TimedOut: every step taken in Polling
\* stays in Polling or enters one of the three, and once a terminal state is
\* reached no step changes it, issues a status query, sleeps or moves the
\* poll's clock readings.
C15_TerminalIsFinal ==
    [][/\ PollState = "NotStarted" => PollState' \in {"NotStarted", "Polling"}
       /\ PollState = "Polling" =>
             PollState' \in {"Polling", "Succeeded", "Failed", "TimedOut"}
       /\ PollTerminal =>
             /\ PollState' = PollState
             /\ gets' = gets
             /\ attempt' = attempt
             /\ start' = start
             /\ elapsed' = elapsed
             /\ clip' = clip
             /\ pc' \notin {"loop", "query", "sleep"}
             /\ (PollState # "Succeeded" => now' = now)
       /\ (PollState = "Polling" /\ PollState' = "Succeeded") =>
             FirstClipIs(resp', "succeeded")
       /\ (PollState = "Polling" /\ PollState' = "TimedOut") =>
             (pc = "loop" /\ gets' = gets)]_vars

\* C15 witness: the poll reached Succeeded on a later iteration and the call
\* went on to its end without another status query
C15_Witness ==
    /\ PollState = "Succeeded"
    /\ pc = "returned"
    /\ gets = attempt
    /\ gets >= 2
    /\ downloads = 2

\* a 200 answer whose body resp.json() parses: a JSON object or any other
\* JSON value
Parseable(r) == r.net = "ok" /\ r.status = 200 /\ r.shape \in {"object", "array"}

\* C16: a 200 status answer with a parseable body whose first Clip is neither
\* succeeded nor failed (unknown or absent state, no recognized code, a
\* missing or empty result list) never ends the poll call: the iteration
\* sleeps and loops, and the call can only end later by the deadline.
C16_ParseableNeverEnds ==
    (/\ StatusObserved
     /\ Parseable(resp)
     /\ ~FirstClipIs(resp, "succeeded")
     /\ ~FirstClipIs(resp, "failed")) =>
        (pc \in {"sleep", "loop", "query"} \/ TimedOut)

\* C17: while polling, a 202 answer is never an error: the iteration sleeps and
\* loops, and the call can only end later by the deadline. An answer with any
\* status other than 200 and 202 ends the call at once with the ServiceError
\* that carries the status code and the response text, and that query was the
\* call's last request; a ServiceError has no other cause.
C17_StatusDecidesPolling ==
    /\ (StatusObserved /\ resp.net = "ok" /\ resp.status = 202) =>
          /\ pc \in {"sleep", "loop", "query"} \/ TimedOut
          /\ clip = NoClip
    /\ (StatusObserved /\ resp.net = "ok" /\ resp.status \notin {200, 202}) =>
          /\ pc = "raised"
          /\ error.cls = "SunoClientError"
          /\ error.kind = "ServiceError"
          /\ error.status = resp.status
          /\ error.body = resp.text
          /\ gets = attempt
          /\ clip = NoClip
          /\ files = {}
    /\ (pc = "raised" /\ error.kind = "ServiceError") =>
          /\ StatusObserved
          /\ resp.net = "ok"
          /\ resp.status \notin {200, 202}

\* C17 witness: after a pending answer the call slept and queried again, and
\* the second answer, a 204 with a body, ended it with the ServiceError
C17_Witness ==
    /\ pc = "raised"
    /\ error.kind = "ServiceError"
    /\ error.status = 204
    /\ error.body = "oops"
    /\ gets = 2
    /\ connFailures = 0
    /\ interval > 0
    /\ now - start >= sleep_ticks(interval)

\* a 200 answer whose body does not match the expected structured format, a
\* JSON object: the body is not JSON at all, or it is JSON of another type
NotExpectedFormat(r) ==
    r.net = "ok" /\ r.status = 200 /\ r.shape \in {"nonjson", "array"}

\* C18: a 200 answer whose body does not match the expected structured format
\* ends the poll call at once with the ProtocolError that quotes the body; it
\* is never swallowed or retried, and a ProtocolError has no other cause. A
\* connection failure of a status query never ends the call: the iteration
\* sleeps and loops, and no error raised while polling other than the
\* deadline's follows a query that failed to connect.
C18_ParseFatalTransportNot ==
    /\ (StatusObserved /\ NotExpectedFormat(resp)) =>
          /\ pc = "raised"
          /\ error.cls = "SunoClientError"
          /\ error.kind = "ProtocolError"
          /\ error.body = resp.text
          /\ gets = attempt
          /\ clip = NoClip
          /\ files = {}
    /\ (pc = "raised" /\ error.kind = "ProtocolError") =>
          /\ StatusObserved
          /\ NotExpectedFormat(resp)
    /\ (StatusObserved /\ resp.net = "error") =>
          /\ pc \in {"sleep", "loop", "query"} \/ TimedOut
          /\ connFailures >= 1
    /\ (pc = "raised" /\ StatusObserved /\ ~TimedOut) => resp.net = "ok"

\* the call has read artifact fields of its Clip or started a download:
\* _download_audio is running or has run
ClipConsumed ==
    \/ pc \in {"download", "cover", "returned"}
    \/ downloads >= 1
    \/ files # {}
    \/ result # NoResult
    \/ pc = "raised" /\ error.kind \in DownloadKinds

\* C19: the Clip handed to _download_audio, whose fields are read and whose
\* references are downloaded, is always the first Clip of an answer that
\* reported it succeeded. While the last status answer shows a first Clip that
\* is pending or failed (or no Clip), no Clip is held, no download was
\* started, no file was written and no result was built; a call ended by a
\* failed Clip has consumed nothing.
C19_OnlySucceededConsumed ==
    /\ clip # NoClip => Get(clip, "state") = "succeeded"
    /\ ClipConsumed => (clip \in SucceededClips /\ gets >= 1)
    /\ (StatusObserved /\ FirstClipIs(resp, "succeeded")) => clip = resp.body.data[1]
    /\ (StatusObserved /\ ~FirstClipIs(resp, "succeeded")) =>
          /\ clip = NoClip
          /\ ~ClipConsumed
    /\ (pc = "raised" /\ error.kind = "JobFailed") =>
          (clip = NoClip /\ downloads = 0 /\ files = {} /\ result = NoResult)

\* C19 witness: the first answers showed no succeeded Clip, a later one did,
\* and the call read that Clip's fields and wrote both of its artifacts
C19_Witness ==
    /\ pc = "returned"
    /\ gets >= 2
    /\ clip = ClipFull
    /\ Cardinality(files) = 2
    /\ result.title = "T"
    /\ result.tags = "meme"

\* the locals of handle_user_request hold nothing
NoRequestHeld ==
    /\ user_need = <<>>
    /\ music_prompt_en = <<>>
    /\ music_result = NoResult
    /\ cover_path = NoPath

\* what holds of a request's generation call whether or not the program is
\* interrupted: while the call runs and when it raises, nothing was rendered
\* or published for the request; a reported failure leaves a single
\* generation call, no render and no publish; no exception of the call
\* crashes the listener (a crash comes from Step1, Step3 or Step4); and the
\* call made for the next request starts from a fresh frame
GenerationFailureContained ==
    /\ lpc = "generate" =>
          /\ pc # "idle"
          /\ generations = 1
          /\ renders = 0
          /\ publishes = 0
          /\ music_result = NoResult
          /\ reported = NoError
    /\ reported # NoError =>
          /\ reported.kind \in CreateKinds \cup PollKinds \cup DownloadKinds
          /\ generations = 1
          /\ renders = 0
          /\ publishes = 0
    /\ (lpc = "input" /\ last = "gen_failed") => reported # NoError
    /\ (lpc = "crashed" /\ last = "crashed") => (generations = 0 \/ renders = 1)
    /\ renders >= 1 => reported = NoError
    /\ lpc \in {"select_cover", "render", "publish"} =>
          (music_result # NoResult /\ reported = NoError)
    /\ generations <= 1 /\ posts <= 1 /\ renders <= 1 /\ publishes <= renders
    /\ lpc # "generate" => CallIdle
    /\ lpc \in {"start", "input", "stopped"} => NoRequestHeld
    /\ (lpc = "generate" /\ pc = "call") =>
          /\ title = HakimiMemeTrack
          /\ max_wait = AgentMaxWait
          /\ interval = AgentInterval
          /\ task_id = None /\ clip = NoClip /\ resp = NoResp
          /\ result = NoResult /\ error = NoError
          /\ posts = 0 /\ gets = 0 /\ downloads = 0 /\ attempt = 0

\* the listener is in its loop, where the next line is read, or has left it
\* at input() (an exit word, an interrupt or the end of the input there)
LoopGoesOn == lpc \in {"input", "stopped"} /\ last = "gen_failed"

\* the user's Ctrl-C ended the program outside input()
EndedByInterrupt == lpc = "crashed" /\ last = "interrupted"

\* C20 as claimed: in the listener loop a request whose generation call raises
\* is reported and dropped, nothing is rendered or published for it, it is
\* neither resubmitted nor queued, and once its exception is printed the loop
\* goes on to accept the next request, whose call starts from a fresh frame.
C20_FailedRequestDropped ==
    /\ GenerationFailureContained
    /\ reported # NoError => LoopGoesOn

\* C20 amended: as claimed, unless the user interrupts the program. The try
\* of the loop holds input() alone, so a Ctrl-C that arrives outside input(),
\* also right after a failure was reported, ends the listener with
\* KeyboardInterrupt uncaught and no next request is accepted.
C20_FailedRequestDroppedUnlessInterrupted ==
    /\ GenerationFailureContained
    /\ reported # NoError => (LoopGoesOn \/ EndedByInterrupt)

\* C20 witness: the first request was dropped when its generation failed, and
\* the second request, accepted after it, has been generated and rendered
\* and is about to be published
C20_Witness ==
    /\ served = 2
    /\ last = "gen_failed"
    /\ lpc = "publish"
    /\ generations = 1
    /\ renders = 1
    /\ video = "written"

\* every concurrent call has returned or raised
AllDone == \A i \in CallIds : calls[i].pc \in {"returned", "raised"}

\* C21: concurrent calls share only the output directory. Calls whose titles
\* give different slugs write disjoint files; calls with the same slug write
\* the same files, and once all calls have finished every file holds the
\* content of its last writer and every returned audio path names a file
\* that exists. Runs in which a write raised OSError are not counted.
C21_LastWriterWins ==
    /\ \A i, j \in CallIds :
          (/\ calls[i].filename # <<>>
           /\ calls[j].filename # <<>>
           /\ calls[i].filename # calls[j].filename) =>
             calls[i].wrote \cap calls[j].wrote = {}
    /\ (AllDone /\ \A i \in CallIds : calls[i].failed = {}) =>
          /\ \A f \in files : f \in lastWrite
          /\ \A i \in CallIds :
                calls[i].pc = "returned" =>
                   calls[i].result.audio_path \in FileNames(files)

\* the number of status queries the deadline leaves room for
QueryBound == (max_wait \div interval) + 1

\* the call is over, with a result or with an exception
CallEnded == pc \in {"returned", "raised"}

\* C22: with interval >= 1 and max_wait >= 0, whatever the service answers and
\* however often the transport fails, the poll issues at most
\* floor(max_wait / interval) + 1 status queries, and the call ends
C22_PollTerminatesWithinBound ==
    /\ [](/\ interval >= 1
          /\ gets <= QueryBound
          /\ attempt <= QueryBound)
    /\ <>CallEnded

\* only transport failures, as many as the bound allows, then the timeout
C22_Witness ==
    /\ TimedOut
    /\ interval >= 1
    /\ gets = QueryBound
    /\ gets >= 2
    /\ connFailures = gets

====
